---- MODULE Spec2Model ----
(***************************************************************************)
(* Multi-sample voice enrollment (audio/embedding_utils.py): sample        *)
(* analysis and weighting, speaker-embedding fusion with outlier           *)
(* rejection, and assembly of the fused voice-clone prompt; and the        *)
(* synthesis-model cache (audio/model_loader.py).                          *)
(*                                                                         *)
(* Python floats are modelled as exact rationals [n |-> Int, d |-> Nat],   *)
(* kept in lowest terms.  Python lists are sequences; Python index i is    *)
(* position i + 1 here.  Python's None is the value None.                  *)
(***************************************************************************)
EXTENDS Integers, Sequences, FiniteSets, TLC

VARIABLES
    pc,                  \* position of the call under analysis
    audio_paths,         \* analyze_audio_samples: argument audio_paths
    transcripts,         \* analyze_audio_samples: argument transcripts
    samples,             \* analyze_audio_samples: returned list (or Raised)
    embeddings,          \* combine_speaker_embeddings: argument embeddings
    weights,             \* combine_speaker_embeddings: argument weights
    outlier_threshold,   \* combine_speaker_embeddings: argument outlier_threshold
    combined,            \* combine_speaker_embeddings: returned tensor (or Raised)
    sample_infos,        \* create_combined_voice_clone_prompt: argument sample_infos
    x_vector_only_mode,  \* create_combined_voice_clone_prompt: argument x_vector_only_mode
    all_prompts,         \* create_combined_voice_clone_prompt: local all_prompts
    calls,               \* calls received by model.create_voice_clone_prompt
    result,              \* create_combined_voice_clone_prompt: returned list (or Raised)
    loaded_models,       \* model_loader: the module's cache, oldest entry first
    get_model_log        \* model_loader: the get_model calls made and their outcomes

vars == <<pc, audio_paths, transcripts, samples, embeddings, weights,
          outlier_threshold, combined, sample_infos, x_vector_only_mode,
          all_prompts, calls, result, loaded_models, get_model_log>>

None == [none |-> TRUE]

\* A Python str: the sequence of its characters.
Str(cs) == [chars |-> cs]

\* A Python list passed where None is also accepted.
List(s) == [list |-> s]

\* The outcome of a call that can raise: the returned value, or the class of
\* the exception that left the function.
Returned(v) == [value |-> v]

Raised(kind) == [raised |-> kind]

IsRaised(r) == "raised" \in DOMAIN r

(***************************************************************************)
(* Bounds of the model.                                                    *)
(***************************************************************************)
MaxSamples == 2

MaxEmbeddings == 3

MaxCalls == 3

(***************************************************************************)
(* Exact rational arithmetic standing for Python float arithmetic.         *)
(***************************************************************************)
Abs(i) == IF i < 0 THEN -i ELSE i

RECURSIVE Gcd(_, _)
Gcd(a, b) == IF b = 0 THEN a ELSE Gcd(b, a % b)

Frac(n, d) ==
    LET g == Gcd(Abs(n), Abs(d))
        s == IF d < 0 THEN -1 ELSE 1
    IN  [n |-> s * (n \div g), d |-> s * (d \div g)]

Int2F(i) == [n |-> i, d |-> 1]

FAdd(a, b) == Frac(a.n * b.d + b.n * a.d, a.d * b.d)

FSub(a, b) == Frac(a.n * b.d - b.n * a.d, a.d * b.d)

FMul(a, b) == Frac(a.n * b.n, a.d * b.d)

\* Python float division; the caller guards b # 0 (ZeroDivisionError otherwise).
FDiv(a, b) == Frac(a.n * b.d, a.d * b.n)

FLt(a, b) == a.n * b.d < b.n * a.d

FLe(a, b) == a.n * b.d <= b.n * a.d

FIsZero(a) == a.n = 0

FMin(a, b) == IF FLt(b, a) THEN b ELSE a

FMax(a, b) == IF FLt(a, b) THEN b ELSE a

\* Python sum() over a list of floats.
RECURSIVE FSum(_)
FSum(s) == IF s = <<>> THEN Int2F(0) ELSE FAdd(Head(s), FSum(Tail(s)))

\* Python truthiness of an Optional[float]: None and 0.0 are falsy.
FloatTruthy(x) == x # None /\ ~FIsZero(x)

\* Python `x or default` on an Optional[float].
FloatOr(x, default) == IF FloatTruthy(x) THEN x ELSE default

(***************************************************************************)
(* The audio files on disk.  sf.read(path) either raises or returns        *)
(* (data, sr); of the decoded signal the model keeps what estimate_snr     *)
(* reads: len(data), sr, whether rms_total < 1e-10, whether the 10th       *)
(* percentile of the frame RMS (noise_floor) is < 1e-10, and the value of  *)
(* 20 * log10(rms_total / noise_floor) in dB.                              *)
(***************************************************************************)
Decoded(len, sr, rms_zero, floor_zero, ratio_db) ==
    [ok |-> TRUE, len |-> len, sr |-> sr, rms_zero |-> rms_zero,
     floor_zero |-> floor_zero, ratio_db |-> ratio_db]

Undecodable == [ok |-> FALSE]

SoundFiles ==
    [p \in {"missing", "empty", "silent", "short", "digital", "tone",
            "noisy", "good", "clean", "studio"} |->
        CASE p = "missing" -> Undecodable
          [] p = "empty"   -> Decoded(0, 100, TRUE, TRUE, 0)
          [] p = "silent"  -> Decoded(500, 100, TRUE, TRUE, 0)
          [] p = "short"   -> Decoded(10, 100, FALSE, FALSE, 25)
          [] p = "digital" -> Decoded(1000, 100, FALSE, TRUE, 0)
          [] p = "tone"    -> Decoded(1000, 100, FALSE, FALSE, 0)
          [] p = "noisy"   -> Decoded(500, 100, FALSE, FALSE, 10)
          [] p = "good"    -> Decoded(1000, 100, FALSE, FALSE, 30)
          [] p = "clean"   -> Decoded(1500, 100, FALSE, FALSE, 35)
          [] p = "studio"  -> Decoded(500, 100, FALSE, FALSE, 70)]

Paths == DOMAIN SoundFiles

sf_read(path) == SoundFiles[path]

Whitespace == {" "}

TranscriptValues == {None, Str(<<>>), Str(<<" ">>), Str(<<"h", "i">>)}

\* str.strip(): drop leading and trailing whitespace.
RECURSIVE LStrip(_)
LStrip(s) ==
    IF s # <<>> /\ Head(s) \in Whitespace THEN LStrip(Tail(s)) ELSE s

RECURSIVE RStrip(_)
RStrip(s) ==
    IF s # <<>> /\ s[Len(s)] \in Whitespace
    THEN RStrip(SubSeq(s, 1, Len(s) - 1)) ELSE s

Strip(s) == Str(RStrip(LStrip(s.chars)))

\* Python `t and t.strip()` taken as a condition, t an Optional[str].
HasTranscript(t) == t # None /\ t # Str(<<>>) /\ Strip(t) # Str(<<>>)

(***************************************************************************)
(* get_audio_duration                                                      *)
(***************************************************************************)
get_audio_duration(audio_path) ==
    LET f == sf_read(audio_path)
    IN  IF ~f.ok \/ f.sr = 0       \* sf.read or the division raised
        THEN Int2F(0)
        ELSE Frac(f.len, f.sr)

(***************************************************************************)
(* estimate_snr                                                            *)
(***************************************************************************)
\* Variant: the decode failure reports 0.0 (as the docstring says) instead
\* of 20.0.
estimate_snr_ZeroOnError(audio_path) ==
    LET f == sf_read(audio_path)
    IN  IF ~f.ok THEN Int2F(0)
        ELSE IF f.len = 0 \/ f.sr <= 0 THEN Int2F(0)
        ELSE IF f.rms_zero THEN Int2F(0)
        ELSE LET int_sr    == (f.sr * 2) \div 100
                 frame_size == IF int_sr > 1 THEN int_sr ELSE 1
                 n_frames   == f.len \div frame_size
             IN  IF n_frames < 10 THEN Int2F(20)
                 ELSE IF f.floor_zero THEN Int2F(40)
                 ELSE FMax(Int2F(0), FMin(Int2F(60), Int2F(f.ratio_db)))

estimate_snr(audio_path) ==
    LET f == sf_read(audio_path)
    IN  IF ~f.ok THEN Int2F(20)                           \* except Exception
        ELSE IF f.len = 0 \/ f.sr <= 0 THEN Int2F(0)
        ELSE IF f.rms_zero THEN Int2F(0)
        ELSE LET int_sr    == (f.sr * 2) \div 100         \* int(sr * 0.02)
                 frame_size == IF int_sr > 1 THEN int_sr ELSE 1
                 n_frames   == f.len \div frame_size
             IN  IF n_frames < 10 THEN Int2F(20)
                 ELSE IF f.floor_zero THEN Int2F(40)
                 ELSE FMax(Int2F(0), FMin(Int2F(60), Int2F(f.ratio_db)))

(***************************************************************************)
(* analyze_audio_samples                                                   *)
(***************************************************************************)
AudioSampleInfo(path, duration, transcript, snr_estimate, is_primary, weight) ==
    [path |-> path, duration |-> duration, transcript |-> transcript,
     snr_estimate |-> snr_estimate, is_primary |-> is_primary,
     weight |-> weight]

\* Variant: the weight field defaults to 0.0.
DefaultWeight_Zero == Int2F(0)

\* The dataclass default of AudioSampleInfo.weight.
DefaultWeight == Int2F(1)

\* Lines 94-98: the transcripts argument, defaulted and padded with None.
TranscriptList(paths, trs) ==
    LET given == IF trs = None THEN <<>> ELSE trs.list
    IN  [i \in 1..(IF Len(given) < Len(paths) THEN Len(paths) ELSE Len(given)) |->
            IF i <= Len(given) THEN given[i] ELSE None]

\* Lines 100-113: one record per (path, transcript) pair of the zip.
BuildSamples(paths, trs) ==
    LET tl == TranscriptList(paths, trs)
    IN  [i \in 1..Len(paths) |->
            AudioSampleInfo(paths[i], get_audio_duration(paths[i]), tl[i],
                            estimate_snr(paths[i]), i = 1, DefaultWeight)]

Durations(ss) == [i \in 1..Len(ss) |-> ss[i].duration]

WeightsOf(ss) == [i \in 1..Len(ss) |-> ss[i].weight]

\* Variant: the estimate is used as it is, without the 20.0 fallback.
WeightSnr_NoFallback(s) == s.snr_estimate

\* Line 123: the quality used for weighting.
WeightSnr(s) == FloatOr(s.snr_estimate, Int2F(20))

\* Lines 120-127: the weight of one sample before renormalization.
RawWeight(s, total_duration) ==
    LET duration_weight == FDiv(s.duration, total_duration)
        quality_weight  == FMin(Int2F(1), FDiv(WeightSnr(s), Int2F(40)))
    IN  FAdd(FMul(Frac(7, 10), duration_weight),
             FMul(Frac(3, 10), quality_weight))

\* Lines 116-127.
ComputeWeights(ss) ==
    LET total_duration == FSum(Durations(ss))
    IN  IF FLt(Int2F(0), total_duration)
        THEN [i \in 1..Len(ss) |->
                 [ss[i] EXCEPT !.weight = RawWeight(ss[i], total_duration)]]
        ELSE ss

\* Variant: the renormalization is left out.
NormalizeWeights_Skipped(ss) == ss

\* Lines 130-133.
NormalizeWeights(ss) ==
    LET total_weight == FSum(WeightsOf(ss))
    IN  IF FLt(Int2F(0), total_weight)
        THEN [i \in 1..Len(ss) |->
                 [ss[i] EXCEPT !.weight = FDiv(ss[i].weight, total_weight)]]
        ELSE ss

\* Line 146: the key of the max().
PrimaryScore(s) == FMul(s.duration, FloatOr(s.snr_estimate, Int2F(20)))

\* Lines 138-143.
Candidates(ss) ==
    LET samples_with_transcript ==
            {i \in 1..Len(ss) : HasTranscript(ss[i].transcript)}
    IN  IF samples_with_transcript # {} THEN samples_with_transcript
        ELSE 1..Len(ss)

\* Lines 144-147: Python max() returns the first of the maximal elements.
BestIdx(ss) ==
    LET c == Candidates(ss)
    IN  CHOOSE i \in c :
            /\ \A j \in c : FLe(PrimaryScore(ss[j]), PrimaryScore(ss[i]))
            /\ \A j \in c : j < i => FLt(PrimaryScore(ss[j]), PrimaryScore(ss[i]))

\* Variant: every candidate that reaches the best score is flagged.
SelectPrimary_AllBest(ss) ==
    IF ss = <<>> THEN ss
    ELSE [i \in 1..Len(ss) |->
             [ss[i] EXCEPT !.is_primary =
                 /\ i \in Candidates(ss)
                 /\ PrimaryScore(ss[i]) = PrimaryScore(ss[BestIdx(ss)])]]

\* Lines 137-149.
SelectPrimary(ss) ==
    IF ss = <<>> THEN ss
    ELSE [i \in 1..Len(ss) |-> [ss[i] EXCEPT !.is_primary = (i = BestIdx(ss))]]

analyze_audio_samples(paths, trs) ==
    SelectPrimary(NormalizeWeights(ComputeWeights(BuildSamples(paths, trs))))

(***************************************************************************)
(* Tensors.  A tensor of shape (D,) is [v |-> <<x1, .., xD>>, r |-> q]     *)
(* with rational xi and a rational q > 0, and stands for the vector        *)
(* v / sqrt(q): the results of L2 normalization are exact in this form.    *)
(* A tensor with r = 1 is a rational vector.                               *)
(***************************************************************************)
Tensor(v, r) == [v |-> v, r |-> r]

Rational(v) == Tensor(v, Int2F(1))

Dot(a, b) == FSum([i \in 1..Len(a) |-> FMul(a[i], b[i])])

IsSquare(n) == \E k \in 0..n : k * k = n

ISqrt(n) == CHOOSE k \in 0..n : k * k = n

\* The rational vector equal to t when sqrt(t.r) is rational, else t itself.
Canonical(t) ==
    IF IsSquare(t.r.n) /\ IsSquare(t.r.d)
    THEN LET root == Frac(ISqrt(t.r.n), ISqrt(t.r.d))
         IN  Rational([i \in 1..Len(t.v) |-> FDiv(t.v[i], root)])
    ELSE t

\* Squared L2 norm of a tensor.
NormSq(t) == FDiv(Dot(t.v, t.v), t.r)

IsZeroTensor(t) == \A i \in 1..Len(t.v) : FIsZero(t.v[i])

\* torch.nn.functional.normalize(x, dim=-1): x / max(||x||, 1e-12).
F_normalize(t) ==
    IF IsZeroTensor(t) THEN Rational(t.v)
    ELSE Canonical(Tensor(t.v, Dot(t.v, t.v)))

\* torch.stack(ts).mean(dim=0) of rational vectors.
StackMean(ts) ==
    LET n == Len(ts)
        D == Len(ts[1].v)
    IN  Rational([k \in 1..D |->
            FDiv(FSum([i \in 1..n |-> ts[i].v[k]]), Int2F(n))])

\* A scalar s / sqrt(r) compared with a rational t: s / sqrt(r) < t.
SurdLt(s, r, t) ==
    IF FLe(Int2F(0), s)
    THEN FLt(Int2F(0), t) /\ FLt(FMul(s, s), FMul(FMul(t, t), r))
    ELSE FLe(Int2F(0), t) \/ FLt(FMul(FMul(t, t), r), FMul(s, s))

\* Lines 209-210: sim = (emb * centroid).sum().item(); sim < threshold.
SimBelow(emb, centroid, threshold) ==
    SurdLt(Dot(emb.v, centroid.v), FMul(emb.r, centroid.r), threshold)

\* Lines 229-231: zeros_like(..) + sum of w * emb over the zip of two lists.
WeightedSum(embs, ws) ==
    LET n == IF Len(embs) < Len(ws) THEN Len(embs) ELSE Len(ws)
        D == Len(embs[1].v)
    IN  Rational([k \in 1..D |->
            FSum([i \in 1..n |-> FMul(ws[i], embs[i].v[k])])])

(***************************************************************************)
(* combine_speaker_embeddings                                              *)
(***************************************************************************)
Min(a, b) == IF a < b THEN a ELSE b

Indexes(n) == [i \in 1..n |-> i]

\* Lines 189-192.
Normed(embs) == [i \in 1..Len(embs) |-> F_normalize(embs[i])]

\* Lines 195-196: the weights argument, defaulted to equal weights.
GivenWeights(embs, ws) ==
    IF ws = None THEN [i \in 1..Len(embs) |-> Int2F(1)] ELSE ws.list

\* Lines 199-201.
Centroid(normed) == F_normalize(StackMean(normed))

\* Variant: the `continue` of line 214 is missing, nothing is excluded.
Survivors_NoRejection(normed, ws, threshold) ==
    Indexes(Min(Len(normed), Len(ws)))

\* Lines 207-216: the positions of the zip(normed, weights) that are kept.
Survivors(normed, ws, threshold) ==
    LET centroid == Centroid(normed)
        kept(i) == ~(/\ FLt(Int2F(0), threshold)
                     /\ SimBelow(normed[i], centroid, threshold))
    IN  SelectSeq(Indexes(Min(Len(normed), Len(ws))), kept)

\* Lines 204-222: valid_embeddings after the fallback.
ValidEmbeddings(normed, ws, threshold) ==
    LET kept == Survivors(normed, ws, threshold)
    IN  IF kept = <<>> THEN normed
        ELSE [k \in 1..Len(kept) |-> normed[kept[k]]]

\* Variant: the fallback to all samples takes equal weights.
ValidWeights_EqualOnFallback(normed, ws, threshold) ==
    LET kept == Survivors(normed, ws, threshold)
    IN  IF kept = <<>> THEN [i \in 1..Len(normed) |-> Int2F(1)]
        ELSE [k \in 1..Len(kept) |-> ws[kept[k]]]

\* Lines 205-222: valid_weights after the fallback.
ValidWeights(normed, ws, threshold) ==
    LET kept == Survivors(normed, ws, threshold)
    IN  IF kept = <<>> THEN ws
        ELSE [k \in 1..Len(kept) |-> ws[kept[k]]]

\* Lines 225-236.
WeightedMean(valid_embeddings, valid_weights) ==
    LET total_w == FSum(valid_weights)
    IN  IF valid_weights # <<>> /\ FIsZero(total_w)
        THEN Raised("ZeroDivisionError")                  \* w / total_w
        ELSE Returned(F_normalize(WeightedSum(valid_embeddings,
                 [i \in 1..Len(valid_weights) |->
                     FDiv(valid_weights[i], total_w)])))

\* Variant: a single embedding takes the general path (no early return).
combine_speaker_embeddings_NoShortcut(embs, ws, threshold) ==
    IF embs = <<>> THEN Raised("ValueError")
    ELSE LET normed == Normed(embs)
             given  == GivenWeights(embs, ws)
         IN  WeightedMean(ValidEmbeddings(normed, given, threshold),
                          ValidWeights(normed, given, threshold))

combine_speaker_embeddings(embs, ws, threshold) ==
    IF embs = <<>> THEN Raised("ValueError")
    ELSE IF Len(embs) = 1 THEN Returned(F_normalize(embs[1]))
    ELSE LET normed == Normed(embs)
             given  == GivenWeights(embs, ws)
         IN  WeightedMean(ValidEmbeddings(normed, given, threshold),
                          ValidWeights(normed, given, threshold))

(***************************************************************************)
(* The synthesis model (external collaborator).  create_voice_clone_prompt *)
(* returns a list of one prompt item: the speaker embedding of the audio,  *)
(* an opaque reference code for this call, and the reference text given.   *)
(***************************************************************************)
SpeakerEmbedding(path) ==
    CASE path \in {"missing", "empty", "silent"} -> Rational(<<Int2F(-1), Int2F(0)>>)
      [] path \in {"short", "digital", "tone"}   -> Rational(<<Int2F(0), Int2F(2)>>)
      [] OTHER                                   -> Rational(<<Int2F(1), Int2F(0)>>)

VoiceClonePromptItem(ref_code, ref_spk_embedding, xvec_only, icl_mode, ref_text) ==
    [ref_code |-> ref_code, ref_spk_embedding |-> ref_spk_embedding,
     x_vector_only_mode |-> xvec_only, icl_mode |-> icl_mode,
     ref_text |-> ref_text]

VoiceClonePromptCall(ref_audio, ref_text, xvec_only) ==
    [ref_audio |-> ref_audio, ref_text |-> ref_text,
     x_vector_only_mode |-> xvec_only]

\* The prompt item returned for the call numbered n.
model_create_voice_clone_prompt(call, n) ==
    VoiceClonePromptItem([audio |-> call.ref_audio, call |-> n],
                         SpeakerEmbedding(call.ref_audio),
                         call.x_vector_only_mode,
                         ~call.x_vector_only_mode,
                         call.ref_text)

(***************************************************************************)
(* create_combined_voice_clone_prompt                                      *)
(***************************************************************************)
\* all_prompts holds pairs <<info, prompt>>.
Info(p) == p[1]

Prompt(p) == p[2]

\* The prompt of the first pair of a list, or None for an empty list: what a
\* for loop that assigns and breaks on its first hit leaves in primary_prompt.
FirstPrompt(hits) == IF hits = <<>> THEN None ELSE Prompt(hits[1])

\* Lines 288-291.
FirstPrimaryWithText(prompts) ==
    FirstPrompt(SelectSeq(prompts,
        LAMBDA p : Info(p).is_primary /\ HasTranscript(Info(p).transcript)))

\* Lines 293-296.
FirstWithText(prompts) ==
    FirstPrompt(SelectSeq(prompts, LAMBDA p : HasTranscript(Info(p).transcript)))

\* Lines 298-301.
FirstPrimary(prompts) ==
    FirstPrompt(SelectSeq(prompts, LAMBDA p : Info(p).is_primary))

\* Variant: the is_primary record is taken before any record with a
\* transcript.
PrimaryPrompt_PrimaryFirst(prompts, xvec_only) ==
    LET first  == IF xvec_only THEN None ELSE FirstPrimaryWithText(prompts)
        second == IF first # None THEN first ELSE FirstPrimary(prompts)
        third  == IF xvec_only \/ second # None THEN second
                  ELSE FirstWithText(prompts)
    IN  IF third # None THEN third ELSE Prompt(prompts[1])

\* Lines 286-303.
PrimaryPrompt(prompts, xvec_only) ==
    LET first  == IF xvec_only THEN None ELSE FirstPrimaryWithText(prompts)
        second == IF xvec_only \/ first # None THEN first
                  ELSE FirstWithText(prompts)
        third  == IF second # None THEN second ELSE FirstPrimary(prompts)
    IN  IF third # None THEN third ELSE Prompt(prompts[1])

\* Variant: the reference fields are copied from the primary prompt in both
\* modes.
CombinedPrompt_KeepsReference(prompts, xvec_only) ==
    LET embs == [i \in 1..Len(prompts) |-> Prompt(prompts[i]).ref_spk_embedding]
        ws   == [i \in 1..Len(prompts) |-> Info(prompts[i]).weight]
        combined_embedding ==
            combine_speaker_embeddings(embs, List(ws), Frac(7, 10))
        primary_prompt == PrimaryPrompt(prompts, xvec_only)
    IN  IF IsRaised(combined_embedding) THEN combined_embedding
        ELSE Returned(<<VoiceClonePromptItem(
                 primary_prompt.ref_code,
                 combined_embedding.value,
                 xvec_only,
                 ~xvec_only,
                 primary_prompt.ref_text)>>)

\* Lines 273-316, once every sample has its prompt.
CombinedPrompt(prompts, xvec_only) ==
    LET embs == [i \in 1..Len(prompts) |-> Prompt(prompts[i]).ref_spk_embedding]
        ws   == [i \in 1..Len(prompts) |-> Info(prompts[i]).weight]
        combined_embedding ==
            combine_speaker_embeddings(embs, List(ws), Frac(7, 10))
        primary_prompt == PrimaryPrompt(prompts, xvec_only)
    IN  IF IsRaised(combined_embedding) THEN combined_embedding
        ELSE Returned(<<VoiceClonePromptItem(
                 IF xvec_only THEN None ELSE primary_prompt.ref_code,
                 combined_embedding.value,
                 xvec_only,
                 ~xvec_only,
                 IF ~xvec_only THEN primary_prompt.ref_text ELSE None)>>)

(***************************************************************************)
(* Calls of analyze_audio_samples: any list of up to MaxSamples paths and  *)
(* any transcripts argument (absent, shorter, as long, or longer).         *)
(***************************************************************************)
SeqsUpTo(S, n) == UNION {[1..k -> S] : k \in 0..n}

InitAnalyze ==
    /\ pc = "analyze"
    /\ loaded_models = <<>>
    /\ get_model_log = <<>>
    /\ audio_paths \in SeqsUpTo(Paths, MaxSamples)
    /\ transcripts \in
           {None} \cup {List(t) : t \in SeqsUpTo(TranscriptValues, MaxSamples)}
    /\ samples = None
    /\ embeddings = None
    /\ weights = None
    /\ outlier_threshold = None
    /\ combined = None
    /\ sample_infos = None
    /\ x_vector_only_mode = None
    /\ all_prompts = None
    /\ calls = None
    /\ result = None

Analyze ==
    /\ pc = "analyze"
    /\ UNCHANGED <<loaded_models, get_model_log>>
    /\ samples' = analyze_audio_samples(audio_paths, transcripts)
    /\ pc' = "analyzed"
    /\ UNCHANGED <<audio_paths, transcripts, embeddings, weights,
                   outlier_threshold, combined, sample_infos,
                   x_vector_only_mode, all_prompts, calls, result>>

NextAnalyze == Analyze

SpecAnalyze == InitAnalyze /\ [][NextAnalyze]_vars

(***************************************************************************)
(* Properties of analyze_audio_samples (checked under SpecAnalyze).        *)
(***************************************************************************)
Analyzed == pc = "analyzed"

TotalDuration == FSum(Durations(samples))

Readable(path) == sf_read(path).ok

\* C1: for every non-empty input whose total duration is > 0, the weights of
\* the returned records sum to 1 and every weight is >= 0.
C1_WeightsSumToOne ==
    (Analyzed /\ samples # <<>> /\ FLt(Int2F(0), TotalDuration)) =>
        /\ FSum(WeightsOf(samples)) = Int2F(1)
        /\ \A i \in 1..Len(samples) : FLe(Int2F(0), samples[i].weight)

\* C1 witness: a set mixing an unreadable and a readable sample, the readable
\* one with a quality estimate of 0, has been weighted.
C1_Witness ==
    /\ Analyzed
    /\ Len(samples) = 2
    /\ FLt(Int2F(0), TotalDuration)
    /\ \E i, j \in 1..2 :
          /\ ~Readable(samples[i].path)
          /\ Readable(samples[j].path)
          /\ FIsZero(samples[j].snr_estimate)

\* The (duration, quality_estimate) pairs of the records of readable paths.
Measured(ss) ==
    LET r == SelectSeq(ss, LAMBDA s : Readable(s.path))
    IN  [i \in 1..Len(r) |-> <<r[i].duration, r[i].snr_estimate>>]

Primaries(ss) == {i \in 1..Len(ss) : ss[i].is_primary}

\* C5: after analysis of a non-empty input exactly one record is primary.
C5_ExactlyOnePrimary ==
    (Analyzed /\ audio_paths # <<>>) => Cardinality(Primaries(samples)) = 1

\* C5 witness: two samples without transcript that tie on score (both have
\* duration 0) have been analyzed.
C5_Witness ==
    /\ Analyzed
    /\ Len(samples) = 2
    /\ \A i \in 1..2 :
          /\ samples[i].duration = Int2F(0)
          /\ ~HasTranscript(samples[i].transcript)

\* duration x quality_estimate, 20 dB standing in only for an absent estimate.
DocumentedScore(s) ==
    FMul(s.duration, IF s.snr_estimate = None THEN Int2F(20) ELSE s.snr_estimate)

\* C6: the primary record is a candidate (a record with a non-blank transcript
\* if there is one, else any record) of maximal duration x quality_estimate,
\* a computed quality_estimate of 0 scoring 0.
C6_PrimaryMaximizesScore ==
    (Analyzed /\ samples # <<>>) =>
        \A i \in Primaries(samples) :
            /\ i \in Candidates(samples)
            /\ \A j \in Candidates(samples) :
                  FLe(DocumentedScore(samples[j]), DocumentedScore(samples[i]))

\* 0.7 x (duration / D) + 0.3 x min(1, quality_estimate / 40), 20 dB standing
\* in only for an absent estimate.
DocumentedRawWeight(s, D) ==
    LET q == IF s.snr_estimate = None THEN Int2F(20) ELSE s.snr_estimate
    IN  FAdd(FMul(Frac(7, 10), FDiv(s.duration, D)),
             FMul(Frac(3, 10), FMin(Int2F(1), FDiv(q, Int2F(40)))))

\* C7: when the total duration D is > 0, the weight of each record before
\* renormalization is 0.7 x (duration / D) + 0.3 x min(1, quality / 40), a
\* quality_estimate of 0 giving quality_weight 0.
C7_RawWeightFormula ==
    (Analyzed /\ samples # <<>> /\ FLt(Int2F(0), TotalDuration)) =>
        LET raw == ComputeWeights(BuildSamples(audio_paths, transcripts))
        IN  \A i \in 1..Len(samples) :
                raw[i].weight = DocumentedRawWeight(samples[i], TotalDuration)

\* C8 as stated: when every sample has duration 0, every record has weight 0.
C8_ZeroDurationZeroWeights ==
    (Analyzed /\ samples # <<>> /\ FIsZero(TotalDuration)) =>
        \A i \in 1..Len(samples) : samples[i].weight = Int2F(0)

\* C8 amended: when every sample has duration 0, every record keeps the
\* default weight 1.0, renormalized to 1/n.
C8_ZeroDurationUniformWeights ==
    (Analyzed /\ samples # <<>> /\ FIsZero(TotalDuration)) =>
        \A i \in 1..Len(samples) : samples[i].weight = Frac(1, Len(samples))

\* C8 witness: two samples of duration 0 have been analyzed.
C8_Witness ==
    /\ Analyzed
    /\ Len(samples) = 2
    /\ FIsZero(TotalDuration)
    /\ samples[1].weight = Frac(1, 2)

(***************************************************************************)
(* Calls of combine_speaker_embeddings: up to MaxSamples embeddings,       *)
(* weights absent or a list of any length up to MaxSamples, and an outlier *)
(* threshold.                                                              *)
(***************************************************************************)
Vec(x, y) == Rational(<<Int2F(x), Int2F(y)>>)

EmbeddingValues == {Vec(0, 0), Vec(1, 0), Vec(-1, 0), Vec(0, 2), Vec(3, 4)}

WeightValues == {Int2F(0), Int2F(1), Int2F(2)}

ThresholdValues == {Int2F(0), Frac(7, 10), Frac(4, 5)}

InitFuse ==
    /\ pc = "fuse"
    /\ loaded_models = <<>>
    /\ get_model_log = <<>>
    /\ embeddings \in SeqsUpTo(EmbeddingValues, MaxSamples)
    /\ weights \in
           {None} \cup {List(w) : w \in SeqsUpTo(WeightValues, MaxSamples)}
    /\ outlier_threshold \in ThresholdValues
    /\ combined = None
    /\ audio_paths = None
    /\ transcripts = None
    /\ samples = None
    /\ sample_infos = None
    /\ x_vector_only_mode = None
    /\ all_prompts = None
    /\ calls = None
    /\ result = None

Fuse ==
    /\ pc = "fuse"
    /\ UNCHANGED <<loaded_models, get_model_log>>
    /\ combined' = combine_speaker_embeddings(embeddings, weights,
                                              outlier_threshold)
    /\ pc' = "fused"
    /\ UNCHANGED <<audio_paths, transcripts, samples, embeddings, weights,
                   outlier_threshold, sample_infos, x_vector_only_mode,
                   all_prompts, calls, result>>

NextFuse == Fuse

SpecFuse == InitFuse /\ [][NextFuse]_vars

(***************************************************************************)
(* Properties of combine_speaker_embeddings (checked under SpecFuse).      *)
(***************************************************************************)
Fused == pc = "fused"

\* C2: the call raises if and only if the embeddings list is empty, and then
\* the invalid-input error; for a non-empty list it returns a tensor whatever
\* the weights argument and the threshold.
C2_FailsIffEmpty ==
    Fused =>
        /\ embeddings = <<>> => combined = Raised("ValueError")
        /\ embeddings # <<>> => ~IsRaised(combined)

\* The weights argument has one weight per embedding, or is absent.
WeightsWellFormed ==
    weights # None => Len(weights.list) = Len(embeddings)

\* The sum of the weights in use (equal weights when the argument is absent).
TotalGivenWeight == FSum(GivenWeights(embeddings, weights))

AllPositive(ws) == \A i \in 1..Len(ws) : FLt(Int2F(0), ws[i])

\* C9: for non-zero embeddings and positive weights the returned tensor has
\* L2 norm 1.
C9_ResultIsUnitVector ==
    (/\ Fused
     /\ embeddings # <<>>
     /\ \A i \in 1..Len(embeddings) : ~IsZeroTensor(embeddings[i])
     /\ WeightsWellFormed
     /\ AllPositive(GivenWeights(embeddings, weights))) =>
        /\ ~IsRaised(combined)
        /\ NormSq(combined.value) = Int2F(1)

\* Every embedding is below the threshold in similarity to the centroid.
AllBelowThreshold ==
    /\ FLt(Int2F(0), outlier_threshold)
    /\ \A i \in 1..Len(embeddings) :
          SimBelow(F_normalize(embeddings[i]),
                   F_normalize(StackMean(Normed(embeddings))),
                   outlier_threshold)

\* The normalized sum over every embedding of (w_i / sum of all w) x e_i / |e_i|.
FullSetResult ==
    LET ws == GivenWeights(embeddings, weights)
        W  == FSum(ws)
    IN  F_normalize(Rational([k \in 1..Len(embeddings[1].v) |->
            FSum([i \in 1..Len(embeddings) |->
                FMul(FDiv(ws[i], W), F_normalize(embeddings[i]).v[k])])]))

\* C10: with two or more embeddings all below the threshold, the call returns
\* the result computed from all the embeddings with the original weights
\* renormalized to sum 1.
C10_FallbackToFullSet ==
    (/\ Fused
     /\ Len(embeddings) >= 2
     /\ WeightsWellFormed
     /\ FLt(Int2F(0), TotalGivenWeight)
     /\ AllBelowThreshold) =>
        /\ ~IsRaised(combined)
        /\ combined.value = FullSetResult

\* C10 witness: two embeddings with unequal positive weights were both below
\* the threshold and a non-zero tensor was returned.
C10_Witness ==
    /\ Fused
    /\ Len(embeddings) = 2
    /\ weights # None
    /\ WeightsWellFormed
    /\ AllPositive(weights.list)
    /\ weights.list[1] # weights.list[2]
    /\ AllBelowThreshold
    /\ ~IsRaised(combined)
    /\ ~IsZeroTensor(combined.value)

\* Tensors a and b are parallel and point the same way.
SameDirection(a, b) ==
    /\ \A i, j \in 1..Len(a.v) :
          FMul(a.v[i], b.v[j]) = FMul(a.v[j], b.v[i])
    /\ FLt(Int2F(0), Dot(a.v, b.v))

\* C12: for exactly one embedding the call returns that embedding scaled to
\* L2 norm 1 (the zero embedding stays zero), whatever the weights argument
\* and the threshold.
C12_SingleEmbeddingNormalized ==
    (Fused /\ Len(embeddings) = 1) =>
        /\ ~IsRaised(combined)
        /\ IF IsZeroTensor(embeddings[1])
           THEN IsZeroTensor(combined.value)
           ELSE /\ NormSq(combined.value) = Int2F(1)
                /\ SameDirection(combined.value, embeddings[1])

\* C12 witness: one embedding of norm 5 was fused with the weights [0.0] and
\* a positive threshold.
C12_Witness ==
    /\ Fused
    /\ embeddings = <<Vec(3, 4)>>
    /\ weights = List(<<Int2F(0)>>)
    /\ FLt(Int2F(0), outlier_threshold)
    /\ combined = Returned(Rational(<<Frac(3, 5), Frac(4, 5)>>))

(***************************************************************************)
(* Calls of combine_speaker_embeddings with up to MaxEmbeddings embeddings *)
(* and one positive weight per embedding (or no weights argument).         *)
(***************************************************************************)
ManyEmbeddingValues == {Vec(1, 0), Vec(4, 3), Vec(0, 2)}

PositiveWeightValues == {Int2F(1), Int2F(2)}

InitFuseMany ==
    /\ pc = "fuse"
    /\ loaded_models = <<>>
    /\ get_model_log = <<>>
    /\ embeddings \in SeqsUpTo(ManyEmbeddingValues, MaxEmbeddings)
    /\ weights \in
           {None} \cup {List(w) : w \in [1..Len(embeddings) -> PositiveWeightValues]}
    /\ outlier_threshold \in {Int2F(0), Frac(7, 10)}
    /\ combined = None
    /\ audio_paths = None
    /\ transcripts = None
    /\ samples = None
    /\ sample_infos = None
    /\ x_vector_only_mode = None
    /\ all_prompts = None
    /\ calls = None
    /\ result = None

SpecFuseMany == InitFuseMany /\ [][NextFuse]_vars

\* The samples the claim lets contribute: threshold <= 0, or cosine
\* similarity to the normalized centroid >= threshold.
Contributors ==
    LET centroid == F_normalize(StackMean(Normed(embeddings)))
    IN  {i \in 1..Len(embeddings) :
            \/ FLe(outlier_threshold, Int2F(0))
            \/ ~SimBelow(F_normalize(embeddings[i]), centroid,
                         outlier_threshold)}

\* The share of each sample: w_i over the sum of the contributors' weights,
\* and nothing for an excluded sample.
Shares ==
    LET ws  == GivenWeights(embeddings, weights)
        in  == Contributors
        idx == SelectSeq(Indexes(Len(embeddings)), LAMBDA j : j \in in)
        W   == FSum([k \in 1..Len(idx) |-> ws[idx[k]]])
    IN  [i \in 1..Len(embeddings) |->
            IF i \in in /\ ~FIsZero(W) THEN FDiv(ws[i], W) ELSE Int2F(0)]

ContributorsResult ==
    LET share  == Shares
        normed == Normed(embeddings)
    IN  F_normalize(Rational([k \in 1..Len(embeddings[1].v) |->
            FSum([i \in 1..Len(embeddings) |->
                FMul(share[i], normed[i].v[k])])]))

\* C13: with two or more embeddings of which at least one survives, the
\* result is the normalized sum of the contributors (threshold <= 0, or
\* similarity >= threshold), each with its weight over the sum of the
\* contributors' weights; these shares sum to 1 and an excluded sample has
\* share 0.
C13_SurvivorsContribute ==
    (/\ Fused
     /\ Len(embeddings) >= 2
     /\ WeightsWellFormed
     /\ AllPositive(GivenWeights(embeddings, weights))
     /\ Contributors # {}) =>
        /\ ~IsRaised(combined)
        /\ combined.value = ContributorsResult
        /\ FSum(Shares) = Int2F(1)

\* C13 witness: of three embeddings with unequal weights one was excluded and
\* two different ones contributed.
C13_Witness ==
    /\ Fused
    /\ Len(embeddings) = 3
    /\ weights # None
    /\ weights.list[1] # weights.list[2]
    /\ Contributors = {1, 2}
    /\ embeddings[1] # embeddings[2]
    /\ ~IsRaised(combined)

(***************************************************************************)
(* Calls of create_combined_voice_clone_prompt on arbitrary sample         *)
(* records.  The loop of lines 265-271 takes one step per collaborator     *)
(* call; a call returns or raises.                                         *)
(***************************************************************************)
BuildPaths == {"missing", "good"}

BuildTranscripts == {None, Str(<<" ">>), Str(<<"h", "i">>)}

BuildWeights == {Int2F(0), Int2F(1)}

SampleInfos ==
    {AudioSampleInfo(p, Int2F(1), t, None, prim, w) :
        p \in BuildPaths, t \in BuildTranscripts,
        prim \in BOOLEAN, w \in BuildWeights}

InitBuild ==
    /\ pc = "build"
    /\ loaded_models = <<>>
    /\ get_model_log = <<>>
    /\ sample_infos \in SeqsUpTo(SampleInfos, MaxSamples)
    /\ x_vector_only_mode \in BOOLEAN
    /\ all_prompts = <<>>
    /\ calls = <<>>
    /\ result = None
    /\ audio_paths = None
    /\ transcripts = None
    /\ samples = None
    /\ embeddings = None
    /\ weights = None
    /\ outlier_threshold = None
    /\ combined = None

\* Lines 260-261.
RejectEmpty ==
    /\ pc = "build"
    /\ UNCHANGED <<loaded_models, get_model_log>>
    /\ sample_infos = <<>>
    /\ result' = Raised("ValueError")
    /\ pc' = "built"
    /\ UNCHANGED <<audio_paths, transcripts, samples, embeddings, weights,
                   outlier_threshold, combined, sample_infos,
                   x_vector_only_mode, all_prompts, calls>>

NextCall ==
    LET info == sample_infos[Len(all_prompts) + 1]
    IN  VoiceClonePromptCall(info.path, info.transcript, x_vector_only_mode)

\* Lines 265-271, one iteration whose collaborator call returns.
CallReturns ==
    /\ pc = "build"
    /\ UNCHANGED <<loaded_models, get_model_log>>
    /\ Len(all_prompts) < Len(sample_infos)
    /\ calls' = Append(calls, NextCall)
    /\ all_prompts' = Append(all_prompts,
           <<sample_infos[Len(all_prompts) + 1],
             model_create_voice_clone_prompt(NextCall, Len(calls) + 1)>>)
    /\ UNCHANGED <<pc, audio_paths, transcripts, samples, embeddings, weights,
                   outlier_threshold, combined, sample_infos,
                   x_vector_only_mode, result>>

\* Lines 265-271, one iteration whose collaborator call raises: the exception
\* leaves create_combined_voice_clone_prompt.
CallRaises ==
    /\ pc = "build"
    /\ UNCHANGED <<loaded_models, get_model_log>>
    /\ Len(all_prompts) < Len(sample_infos)
    /\ calls' = Append(calls, NextCall)
    /\ result' = Raised("CollaboratorError")
    /\ pc' = "built"
    /\ UNCHANGED <<audio_paths, transcripts, samples, embeddings, weights,
                   outlier_threshold, combined, sample_infos,
                   x_vector_only_mode, all_prompts>>

\* Variant: the loop is left as soon as one prompt exists.
LoopDone_Streaming == Len(all_prompts) >= 1

\* Lines 265-271: the for loop has visited every record.
LoopDone == Len(all_prompts) = Len(sample_infos)

\* Line 274.
PromptEmbeddings(prompts) ==
    [i \in 1..Len(prompts) |-> Prompt(prompts[i]).ref_spk_embedding]

\* Line 275.
PromptWeights(prompts) ==
    [i \in 1..Len(prompts) |-> Info(prompts[i]).weight]

\* Lines 273-316: the embeddings and weights are collected, fused with
\* outlier_threshold 0.7, and the combined prompt is returned.
Assemble ==
    /\ pc = "build"
    /\ UNCHANGED <<loaded_models, get_model_log>>
    /\ sample_infos # <<>>
    /\ LoopDone
    /\ embeddings' = PromptEmbeddings(all_prompts)
    /\ weights' = List(PromptWeights(all_prompts))
    /\ outlier_threshold' = Frac(7, 10)
    /\ combined' = combine_speaker_embeddings(
                       embeddings', weights', outlier_threshold')
    /\ result' = CombinedPrompt(all_prompts, x_vector_only_mode)
    /\ pc' = "built"
    /\ UNCHANGED <<audio_paths, transcripts, samples, sample_infos,
                   x_vector_only_mode, all_prompts, calls>>

NextBuild == RejectEmpty \/ CallReturns \/ CallRaises \/ Assemble

SpecBuild == InitBuild /\ [][NextBuild]_vars

(***************************************************************************)
(* Properties of create_combined_voice_clone_prompt (under SpecBuild).     *)
(***************************************************************************)
Built == pc = "built"

CollaboratorFailed == result = Raised("CollaboratorError")

\* C3: with a collaborator that succeeds on every call, the call raises the
\* invalid-input error exactly when sample_infos is empty, without calling
\* the collaborator; for non-empty sample_infos it returns a list of exactly
\* one prompt, whatever the records' weights and is_primary flags.
C3_OnePromptOrInvalidInput ==
    (Built /\ ~CollaboratorFailed) =>
        /\ sample_infos = <<>> =>
              result = Raised("ValueError") /\ calls = <<>>
        /\ sample_infos # <<>> =>
              ~IsRaised(result) /\ Len(result.value) = 1

PromptReturned == Built /\ "value" \in DOMAIN result

\* C11: a prompt returned in embedding-only mode has no reference code and no
\* reference text and has icl_mode false; in every returned prompt icl_mode
\* is the negation of x_vector_only_mode.
C11_EmbeddingOnlyClearsReference ==
    PromptReturned =>
        LET prompt == result.value[1]
        IN  /\ prompt.x_vector_only_mode = x_vector_only_mode
            /\ prompt.icl_mode = ~prompt.x_vector_only_mode
            /\ x_vector_only_mode =>
                  /\ prompt.ref_code = None
                  /\ prompt.ref_text = None
                  /\ ~prompt.icl_mode

\* C11 witness: a prompt was returned in embedding-only mode for records of
\* which a primary one has a transcript.
C11_Witness ==
    /\ PromptReturned
    /\ x_vector_only_mode
    /\ \E i \in 1..Len(sample_infos) :
          /\ sample_infos[i].is_primary
          /\ HasTranscript(sample_infos[i].transcript)

\* The tiers of the reference selection, as sets of positions of sample_infos.
TierPrimaryWithText ==
    {i \in 1..Len(sample_infos) :
        sample_infos[i].is_primary /\ HasTranscript(sample_infos[i].transcript)}

TierWithText ==
    {i \in 1..Len(sample_infos) : HasTranscript(sample_infos[i].transcript)}

TierPrimary == {i \in 1..Len(sample_infos) : sample_infos[i].is_primary}

FirstOf(S) == CHOOSE i \in S : \A j \in S : i <= j

\* The record the reference fields are documented to come from.
ReferenceRecord ==
    IF TierPrimaryWithText # {} THEN FirstOf(TierPrimaryWithText)
    ELSE IF TierWithText # {} THEN FirstOf(TierWithText)
    ELSE IF TierPrimary # {} THEN FirstOf(TierPrimary)
    ELSE 1

\* C14: outside embedding-only mode the returned prompt carries the reference
\* code the collaborator produced for the first record of the highest
\* non-empty tier (primary with transcript, any with transcript, primary,
\* first record) and that record's transcript as reference text.
C14_ReferenceFallbackChain ==
    (PromptReturned /\ ~x_vector_only_mode) =>
        LET prompt == result.value[1]
            k == ReferenceRecord
        IN  /\ prompt.ref_code = Prompt(all_prompts[k]).ref_code
            /\ prompt.ref_code.call = k
            /\ prompt.ref_text = sample_infos[k].transcript

\* C14 witness: the first record is primary with a blank transcript, the
\* second is not primary and has a transcript, and the prompt refers to the
\* second.
C14_Witness ==
    /\ PromptReturned
    /\ ~x_vector_only_mode
    /\ Len(sample_infos) = 2
    /\ sample_infos[1].is_primary
    /\ sample_infos[1].transcript = Str(<<" ">>)
    /\ ~sample_infos[2].is_primary
    /\ HasTranscript(sample_infos[2].transcript)
    /\ result.value[1].ref_code.call = 2

\* Fusion has begun once combine_speaker_embeddings has been given its
\* arguments.
FusionStarted == outlier_threshold # None

\* The call the collaborator is documented to receive for the i-th record.
ExpectedCall(i) ==
    [ref_audio |-> sample_infos[i].path,
     ref_text |-> sample_infos[i].transcript,
     x_vector_only_mode |-> x_vector_only_mode]

\* C15: the collaborator calls made so far are, in input order, one per
\* record with that record's path and transcript and the call's mode; fusion
\* starts only after all n calls, every run without a collaborator failure
\* makes exactly n calls and then fuses, and after a collaborator failure
\* fusion has not started and no prompt is returned.
C15_FusionIsBarrier ==
    (pc \in {"build", "built"} /\ sample_infos # <<>>) =>
        /\ Len(calls) <= Len(sample_infos)
        /\ \A i \in 1..Len(calls) : calls[i] = ExpectedCall(i)
        /\ FusionStarted => Len(calls) = Len(sample_infos)
        /\ (Built /\ ~CollaboratorFailed) =>
              FusionStarted /\ Len(calls) = Len(sample_infos)
        /\ CollaboratorFailed => ~FusionStarted /\ ~PromptReturned

\* C15 witness: two different records were each sent to the collaborator and
\* fusion then ran on the two embeddings.
C15_Witness ==
    /\ Built
    /\ FusionStarted
    /\ Len(sample_infos) = 2
    /\ sample_infos[1].path # sample_infos[2].path
    /\ sample_infos[1].transcript # sample_infos[2].transcript
    /\ Len(calls) = 2
    /\ Len(embeddings) = 2

\* C15 witness of the failure case: the second collaborator call failed.
C15_FailureWitness ==
    /\ CollaboratorFailed
    /\ Len(sample_infos) = 2
    /\ Len(calls) = 2
    /\ ~FusionStarted

(***************************************************************************)
(* analyze_audio_samples followed by create_combined_voice_clone_prompt on *)
(* its unmodified result.                                                  *)
(***************************************************************************)
PipelinePaths == {"empty", "silent", "tone", "good"}

PipelineTranscripts == {None, List(<<Str(<<"h", "i">>)>>)}

InitPipeline ==
    /\ pc = "analyze"
    /\ loaded_models = <<>>
    /\ get_model_log = <<>>
    /\ audio_paths \in SeqsUpTo(PipelinePaths, MaxEmbeddings)
    /\ transcripts \in PipelineTranscripts
    /\ samples = None
    /\ embeddings = None
    /\ weights = None
    /\ outlier_threshold = None
    /\ combined = None
    /\ sample_infos = None
    /\ x_vector_only_mode = None
    /\ all_prompts = None
    /\ calls = None
    /\ result = None

\* The list returned by analyze_audio_samples is passed on as sample_infos.
StartBuild ==
    /\ pc = "analyzed"
    /\ UNCHANGED <<loaded_models, get_model_log>>
    /\ sample_infos' = samples
    /\ x_vector_only_mode' \in BOOLEAN
    /\ all_prompts' = <<>>
    /\ calls' = <<>>
    /\ pc' = "build"
    /\ UNCHANGED <<audio_paths, transcripts, samples, embeddings, weights,
                   outlier_threshold, combined, result>>

NextPipeline ==
    \/ Analyze
    \/ StartBuild
    \/ RejectEmpty
    \/ CallReturns
    \/ CallRaises
    \/ Assemble

SpecPipeline == InitPipeline /\ [][NextPipeline]_vars

(***************************************************************************)
(* Properties of the pipeline (under SpecPipeline).                        *)
(***************************************************************************)
\* The positions whose weights enter the weighted sum: the survivors of the
\* outlier rejection, or every position when nothing survives.
UsedPositions ==
    LET kept == Contributors
    IN  IF kept = {} THEN 1..Len(embeddings) ELSE kept

UsedWeightTotal ==
    LET used == UsedPositions
        idx  == SelectSeq(Indexes(Len(embeddings)), LAMBDA j : j \in used)
    IN  FSum([k \in 1..Len(idx) |-> weights.list[idx[k]]])

\* C18: every weight analyze_audio_samples returns for a non-empty input is
\* > 0, and equals 1/n when the total duration is 0; when the prompt is then
\* built from that result, the weights of the samples used for the weighted
\* sum have a total > 0 and neither the fusion nor the call ends in a
\* division by zero.
C18_AnalyzedWeightsNeverDivideByZero ==
    /\ (pc # "analyze" /\ audio_paths # <<>>) =>
          /\ AllPositive(WeightsOf(samples))
          /\ ~FLt(Int2F(0), TotalDuration) =>
                \A i \in 1..Len(samples) :
                    samples[i].weight = Frac(1, Len(samples))
    /\ (Built /\ FusionStarted) =>
          /\ weights.list = WeightsOf(samples)
          /\ FLt(Int2F(0), UsedWeightTotal)
          /\ combined # Raised("ZeroDivisionError")
          /\ result # Raised("ZeroDivisionError")
          /\ PromptReturned

\* C18 witness: a prompt was built from the analysis of an empty recording
\* (estimate 0.0, duration 0) and a readable one, every sample was rejected
\* as an outlier, and the full set was used.
C18_Witness ==
    /\ Built
    /\ FusionStarted
    /\ Len(audio_paths) = 2
    /\ audio_paths[1] = "empty"
    /\ audio_paths[2] = "good"
    /\ Contributors = {}
    /\ PromptReturned

(***************************************************************************)
(* The synthesis-model cache (audio/model_loader.py).  loaded_models is    *)
(* the OrderedDict as the sequence of its entries, oldest first; a model   *)
(* instance is identified by the number of the from_pretrained call that   *)
(* created it.                                                             *)
(***************************************************************************)
MAX_MODELS_IN_MEMORY == 1

\* Lines 12-18.
MODEL_PATHS ==
    [name \in {"1.7B-CustomVoice", "0.6B-CustomVoice", "1.7B-Base",
               "0.6B-Base", "1.7B-VoiceDesign"} |->
        CASE name = "1.7B-CustomVoice" -> "./Qwen3-TTS-12Hz-1.7B-CustomVoice"
          [] name = "0.6B-CustomVoice" -> "./Qwen3-TTS-12Hz-0.6B-CustomVoice"
          [] name = "1.7B-Base"        -> "./Qwen3-TTS-12Hz-1.7B-Base"
          [] name = "0.6B-Base"        -> "./Qwen3-TTS-12Hz-0.6B-Base"
          [] name = "1.7B-VoiceDesign" -> "./Qwen3-TTS-12Hz-1.7B-VoiceDesign"]

\* Line 128.
preferred_dtypes == <<"bfloat16", "float16", "float32">>

\* The names get_model is called with: two configured names, one that is not
\* configured.
RequestedNames == {"1.7B-Base", "0.6B-Base", "2.0B-Base"}

CachedNames(cache) == {cache[i].name : i \in 1..Len(cache)}

\* loaded_models[model_name]
CachedModel(cache, model_name) ==
    cache[CHOOSE i \in 1..Len(cache) : cache[i].name = model_name].model

\* OrderedDict.move_to_end
move_to_end(cache, model_name) ==
    SelectSeq(cache, LAMBDA e : e.name # model_name)
        \o SelectSeq(cache, LAMBDA e : e.name = model_name)

\* Variant: the loop runs only while the cache is over the limit.
EvictionNeeded_OverLimit(cache) == Len(cache) > MAX_MODELS_IN_MEMORY

\* Line 103: the condition of the while loop.
EvictionNeeded(cache) == Len(cache) >= MAX_MODELS_IN_MEMORY

\* Lines 77-82 and 103-105: the oldest entry is unloaded until the loop
\* condition fails.
RECURSIVE Evict(_)
Evict(cache) ==
    IF EvictionNeeded(cache) THEN Evict(Tail(cache)) ELSE cache

\* Variant: the name and the path are validated before anything is evicted.
CacheAtValidation_Untouched(cache) == cache

\* Lines 103-117: the cache at the time the name and the path are validated.
CacheAtValidation(cache) == Evict(cache)

\* The instances created by the calls logged so far.
Created(log) == {i \in 1..Len(log) : log[i].created}

\* The instance the next successful from_pretrained call returns.
NewModel(model_name, dtype, log) ==
    [name |-> model_name, id |-> Cardinality(Created(log)) + 1, dtype |-> dtype]

\* One get_model call as logged: its argument, the cache it found, what it
\* returned or raised, how many entries it unloaded, how many times it called
\* from_pretrained, and whether an instance was created.
Call(model_name, before, outcome, unloaded, attempts, created) ==
    [model_name |-> model_name, before |-> before, outcome |-> outcome,
     unloaded |-> unloaded, attempts |-> attempts, created |-> created]

Unloaded(cache) == Len(cache) - Len(Evict(cache))

InitLoader ==
    /\ pc = "loader"
    /\ loaded_models = <<>>
    /\ get_model_log = <<>>
    /\ audio_paths = None
    /\ transcripts = None
    /\ samples = None
    /\ embeddings = None
    /\ weights = None
    /\ outlier_threshold = None
    /\ combined = None
    /\ sample_infos = None
    /\ x_vector_only_mode = None
    /\ all_prompts = None
    /\ calls = None
    /\ result = None

EnrollmentIdle ==
    UNCHANGED <<pc, audio_paths, transcripts, samples, embeddings, weights,
                outlier_threshold, combined, sample_infos,
                x_vector_only_mode, all_prompts, calls, result>>

\* Lines 99-101.
GetModelHit ==
    /\ pc = "loader"
    /\ Len(get_model_log) < MaxCalls
    /\ \E model_name \in RequestedNames :
          /\ model_name \in CachedNames(loaded_models)
          /\ loaded_models' = move_to_end(loaded_models, model_name)
          /\ get_model_log' = Append(get_model_log,
                 Call(model_name, loaded_models,
                      Returned(CachedModel(loaded_models', model_name)),
                      0, 0, FALSE))
    /\ EnrollmentIdle

\* Lines 99-114: the name is not cached and not configured.
GetModelUnknown ==
    /\ pc = "loader"
    /\ Len(get_model_log) < MaxCalls
    /\ \E model_name \in RequestedNames :
          /\ model_name \notin CachedNames(loaded_models)
          /\ model_name \notin DOMAIN MODEL_PATHS
          /\ loaded_models' = CacheAtValidation(loaded_models)
          /\ get_model_log' = Append(get_model_log,
                 Call(model_name, loaded_models, Raised("ValueError"),
                      Len(loaded_models) - Len(loaded_models'), 0, FALSE))
    /\ EnrollmentIdle

\* Lines 99-117: the name is not cached and its path does not exist.
GetModelPathMissing ==
    /\ pc = "loader"
    /\ Len(get_model_log) < MaxCalls
    /\ \E model_name \in RequestedNames :
          /\ model_name \notin CachedNames(loaded_models)
          /\ model_name \in DOMAIN MODEL_PATHS
          /\ loaded_models' = CacheAtValidation(loaded_models)
          /\ get_model_log' = Append(get_model_log,
                 Call(model_name, loaded_models, Raised("ValueError"),
                      Len(loaded_models) - Len(loaded_models'), 0, FALSE))
    /\ EnrollmentIdle

\* Lines 99-146: the name is not cached, its path exists, and from_pretrained
\* succeeds for the d-th dtype after failing for the earlier ones.
GetModelLoads ==
    /\ pc = "loader"
    /\ Len(get_model_log) < MaxCalls
    /\ \E model_name \in RequestedNames, d \in DOMAIN preferred_dtypes :
          LET m == NewModel(model_name, preferred_dtypes[d], get_model_log)
          IN  /\ model_name \notin CachedNames(loaded_models)
              /\ model_name \in DOMAIN MODEL_PATHS
              /\ loaded_models' =
                     Append(Evict(loaded_models), [name |-> model_name, model |-> m])
              /\ get_model_log' = Append(get_model_log,
                     Call(model_name, loaded_models, Returned(m),
                          Unloaded(loaded_models), d, TRUE))
    /\ EnrollmentIdle

\* Lines 99-151: the name is not cached, its path exists, and from_pretrained
\* raises for every dtype.
GetModelLoadFails ==
    /\ pc = "loader"
    /\ Len(get_model_log) < MaxCalls
    /\ \E model_name \in RequestedNames :
          /\ model_name \notin CachedNames(loaded_models)
          /\ model_name \in DOMAIN MODEL_PATHS
          /\ loaded_models' = Evict(loaded_models)
          /\ get_model_log' = Append(get_model_log,
                 Call(model_name, loaded_models, Raised("RuntimeError"),
                      Unloaded(loaded_models), Len(preferred_dtypes), FALSE))
    /\ EnrollmentIdle

NextLoader ==
    \/ GetModelHit
    \/ GetModelUnknown
    \/ GetModelPathMissing
    \/ GetModelLoads
    \/ GetModelLoadFails

SpecLoader == InitLoader /\ [][NextLoader]_vars

(***************************************************************************)
(* Properties of get_model (under SpecLoader).                             *)
(***************************************************************************)
\* The cache the i-th logged call left behind.
CacheAfter(i) ==
    IF i = Len(get_model_log) THEN loaded_models ELSE get_model_log[i + 1].before

WasCached(c) == c.model_name \in CachedNames(c.before)

\* C16: the cache never holds more than one model; a call for a cached name
\* returns the cached instance, calls from_pretrained for nothing, unloads
\* nothing and leaves the cache as it was; a call for an uncached name that
\* returns leaves the returned model as the only entry.
C16_SingleEntryCache ==
    pc = "loader" =>
        /\ Len(loaded_models) <= 1
        /\ \A i \in 1..Len(get_model_log) :
              LET c == get_model_log[i]
              IN  /\ Len(c.before) <= 1
                  /\ WasCached(c) =>
                        /\ c.outcome = Returned(c.before[1].model)
                        /\ c.attempts = 0
                        /\ ~c.created
                        /\ c.unloaded = 0
                        /\ CacheAfter(i) = c.before
                  /\ (~WasCached(c) /\ ~IsRaised(c.outcome)) =>
                        CacheAfter(i) =
                            <<[name |-> c.model_name, model |-> c.outcome.value]>>

\* C16 witness: a model was loaded, returned again from the cache, and then
\* replaced by the load of another model.
C16_Witness ==
    /\ pc = "loader"
    /\ Len(get_model_log) = 3
    /\ get_model_log[1].created
    /\ WasCached(get_model_log[2])
    /\ get_model_log[2].outcome = get_model_log[1].outcome
    /\ get_model_log[3].created
    /\ get_model_log[3].model_name # get_model_log[1].model_name
    /\ get_model_log[3].unloaded = 1
    /\ Len(loaded_models) = 1
    /\ loaded_models[1].name = get_model_log[3].model_name

Failed(c) == ~WasCached(c) /\ IsRaised(c.outcome)

\* C17: a call for an uncached name that fails raises ValueError or
\* RuntimeError and leaves the cache empty, having unloaded the model that
\* was cached; the next call for the name that was cached is not served from
\* the cache (it calls from_pretrained and returns a new instance, or
\* fails); and a call that leaves a non-empty cache as it was is a cache hit.
C17_EvictionBeforeValidation ==
    pc = "loader" =>
        \A i \in 1..Len(get_model_log) :
            LET c == get_model_log[i]
            IN  /\ Failed(c) =>
                      /\ c.outcome \in {Raised("ValueError"), Raised("RuntimeError")}
                      /\ CacheAfter(i) = <<>>
                      /\ c.unloaded = Len(c.before)
                      /\ (i < Len(get_model_log)
                            /\ get_model_log[i + 1].model_name
                                   \in CachedNames(c.before)) =>
                            LET next == get_model_log[i + 1]
                            IN  /\ ~WasCached(next)
                                /\ ~IsRaised(next.outcome) =>
                                      /\ next.created
                                      /\ next.attempts >= 1
                                      /\ next.outcome.value
                                             # CachedModel(c.before, next.model_name)
                /\ (c.before # <<>> /\ CacheAfter(i) = c.before) => WasCached(c)

\* C17 witness: a model was loaded, a call for a name that is not configured
\* failed and emptied the cache, and the next call for the first name loaded
\* a new instance.
C17_Witness ==
    /\ pc = "loader"
    /\ Len(get_model_log) = 3
    /\ get_model_log[1].created
    /\ Failed(get_model_log[2])
    /\ get_model_log[2].model_name \notin DOMAIN MODEL_PATHS
    /\ get_model_log[2].before # <<>>
    /\ get_model_log[3].model_name = get_model_log[1].model_name
    /\ get_model_log[3].created
    /\ get_model_log[3].outcome # get_model_log[1].outcome

====
